---- MODULE Spec2Model ----
(***************************************************************************)
(* Poll store service of ALX Polly (src/services/pollService.ts) and the   *)
(* UI handlers that call it.                                               *)
(*                                                                         *)
(* Strings are sequences of one-character strings, so that trim() is       *)
(* computed.  localStorage values are kept parsed: JSON.stringify followed *)
(* by JSON.parse is the identity on the records stored here (strings,      *)
(* integers, arrays and plain objects).  A localStorage key is an option:  *)
(* <<>> when getItem returns null, <<v>> when it holds v.                  *)
(*                                                                         *)
(* Every call of an async service function is a process, procs[p] being the*)
(* p-th call made; calls may overlap.  A process runs one macrotask per    *)
(* step: the synchronous prefix at the call, then one step per timer that  *)
(* fires, together with the microtasks that follow it (what comes after an *)
(* await of getPolls runs in the macrotask of getPolls' timer).  A timer   *)
(* fires only after the clock advanced (Tick); timers that are due fire in *)
(* any order, which covers every order the delays of the source allow.     *)
(* castVote's two timers in a row (its own, then getPolls') are one wait:  *)
(* nothing is read or written between them.  createPoll reads Date.now()   *)
(* once for the poll id and the option ids.                                *)
(*                                                                         *)
(* Spec takes the service calls in any overlap; SpecInputs takes one call  *)
(* with every input; SpecSeed adds page loads, which run the initializer   *)
(* again; SpecOverlap takes castVote and createPoll task by task,          *)
(* microtasks apart from macrotasks; SpecDashboard takes Dashboard's       *)
(* handlers with the timers at the time they are due; SpecForm takes the   *)
(* handlers of CreatePollForm's option fields.                             *)
(***************************************************************************)
EXTENDS Integers, Sequences, FiniteSets, TLC

VARIABLES
    polls,      \* localStorage[POLLS_KEY], parsed: sequence of Poll
    session,    \* localStorage[CURRENT_USER_KEY]: <<>> or <<User>>
    now,        \* Date.now()
    procs,      \* the calls, handler runs and page loads, in the order made
    createPollForm, \* CreatePollForm's state: options (the fields), isLoading
    dashboard       \* Dashboard's state: polls (the list shown), isLoading,
                    \* isCreatingPoll

vars == <<polls, session, now, procs, createPollForm, dashboard>>

----------------------------------------------------------------------------
(* Bounds of the model *)

MaxCalls == 2          \* service calls made in one run, overlapping or not
ClockStart == 10       \* Date.now() when the module is loaded
MaxClock == 13         \* the clock stops advancing here
MaxPolls == 4          \* createPoll is not called beyond this many polls
MaxOptionInputs == 3   \* longest options array passed to createPoll directly
MaxNameLen == 4        \* longest username passed to signIn
MaxHandlers == 3       \* runs of Dashboard's handlers, its mount fetch included
DashboardTicks == 27   \* how long the dashboard is followed, in units of 100 ms

Procs == 1..MaxCalls
Handlers == 1..MaxHandlers
Slots == 1..(IF MaxHandlers > MaxCalls THEN MaxHandlers ELSE MaxCalls)

----------------------------------------------------------------------------
(* The delays of the service, in units of 100 ms *)

GetPollsDelay == 7     \* getPolls: setTimeout(res, 700)
CreatePollDelay == 6   \* createPoll: setTimeout(res, 600)
CastVoteDelay == 4     \* castVote: setTimeout(res, 400)

----------------------------------------------------------------------------
(* Strings *)

Str_What == <<"W","h","a","t"," ","i","s"," ","y","o","u","r"," ","f","a","v","o","r","i","t","e"," ","f","r","o","n","t","e","n","d"," ","f","r","a","m","e","w","o","r","k","?">>
Str_Which == <<"W","h","i","c","h"," ","A","L","X"," ","t","r","a","c","k"," ","i","s"," ","t","h","e"," ","m","o","s","t"," ","c","h","a","l","l","e","n","g","i","n","g","?">>
Str_React == <<"R","e","a","c","t">>
Str_Vue == <<"V","u","e">>
Str_Svelte == <<"S","v","e","l","t","e">>
Str_Angular == <<"A","n","g","u","l","a","r">>
Str_Foundations == <<"F","o","u","n","d","a","t","i","o","n","s">>
Str_Specialization == <<"S","p","e","c","i","a","l","i","z","a","t","i","o","n"," ","(","e",".","g",".",","," ","F","r","o","n","t","e","n","d",")">>
Str_ProjectPhase == <<"P","r","o","j","e","c","t"," ","P","h","a","s","e">>

ErrUsername == "Username must be at least 3 characters long."
ErrCreatePoll == "A poll requires a question and at least two non-empty options."
ErrPollNotFound == "Poll not found. It may have been deleted."
ErrAlreadyVoted == "You have already voted on this poll."
ErrInvalidOption == "Invalid option selected."

RECURSIVE TrimStart(_)
TrimStart(s) ==
    IF s # <<>> /\ Head(s) = " " THEN TrimStart(Tail(s)) ELSE s

RECURSIVE TrimEnd(_)
TrimEnd(s) ==
    IF s # <<>> /\ s[Len(s)] = " " THEN TrimEnd(SubSeq(s, 1, Len(s) - 1)) ELSE s

\* String.prototype.trim
Trim(s) == TrimEnd(TrimStart(s))

\* Array.prototype.map(o => o.trim())
TrimAll(s) == [i \in 1..Len(s) |-> Trim(s[i])]

\* Array.prototype.filter(o => o) on strings: keeps the non-empty ones
RECURSIVE FilterNonEmpty(_)
FilterNonEmpty(s) ==
    IF s = <<>> THEN <<>>
    ELSE IF Head(s) # <<>> THEN <<Head(s)>> \o FilterNonEmpty(Tail(s))
    ELSE FilterNonEmpty(Tail(s))

\* Array.prototype.findIndex, 1-based; 0 stands for -1
RECURSIVE FindIndexFrom(_, _, _)
FindIndexFrom(s, id, i) ==
    IF i > Len(s) THEN 0
    ELSE IF s[i].id = id THEN i
    ELSE FindIndexFrom(s, id, i + 1)

FindIndex(s, id) == FindIndexFrom(s, id, 1)

\* Array.prototype.includes
Includes(s, x) == \E i \in 1..Len(s) : s[i] = x

----------------------------------------------------------------------------
(* Identifiers: `poll-${n}`, `opt-${n}-${m}`, `user-${n}` *)

PollId(n) == <<"poll", n>>
OptId(n, m) == <<"opt", n, m>>
UserId(n) == <<"user", n>>

----------------------------------------------------------------------------
(* Seeding *)

initialPolls ==
    << [id |-> PollId(1), question |-> Str_What,
        options |-> << [id |-> OptId(1, 1), text |-> Str_React, votes |-> 15],
                       [id |-> OptId(1, 2), text |-> Str_Vue, votes |-> 8],
                       [id |-> OptId(1, 3), text |-> Str_Svelte, votes |-> 12],
                       [id |-> OptId(1, 4), text |-> Str_Angular, votes |-> 3] >>,
        createdBy |-> UserId(1), votedBy |-> <<>>],
       [id |-> PollId(2), question |-> Str_Which,
        options |-> << [id |-> OptId(2, 1), text |-> Str_Foundations, votes |-> 5],
                       [id |-> OptId(2, 2), text |-> Str_Specialization, votes |-> 20],
                       [id |-> OptId(2, 3), text |-> Str_ProjectPhase, votes |-> 18] >>,
        createdBy |-> UserId(2), votedBy |-> <<>>] >>

\* An initializer that writes the example polls whatever is stored
Seed_Overwrites(stored) == <<initialPolls>>

\* The self-invoking initializer: the value of POLLS_KEY after it ran on `stored`
Seed(stored) == IF stored = <<>> THEN <<initialPolls>> ELSE stored

----------------------------------------------------------------------------
(* Authentication *)

\* signIn's guard without the trim
SignInInvalid_NoTrim(username) == username = <<>> \/ Len(username) < 3

\* signIn's guard: !username || username.trim().length < 3
SignInInvalid(username) == username = <<>> \/ Len(Trim(username)) < 3

\* signIn's newUser keeping the username as typed
NewUser_Untrimmed(username, t) == [id |-> UserId(t), username |-> username]

\* signIn's newUser
NewUser(username, t) == [id |-> UserId(t), username |-> Trim(username)]

\* signOut leaving the record in place
SignedOut_KeepsRecord(stored) == stored

\* signOut: localStorage.removeItem(CURRENT_USER_KEY)
SignedOut(stored) == <<>>

\* getCurrentUser: the parsed session record, <<>> for null
GetCurrentUser(stored) == stored

----------------------------------------------------------------------------
(* Polls *)

\* getPolls after its delay: pollsJson ? JSON.parse(pollsJson) : []
GetPollsRead(stored) == IF stored = <<>> THEN <<>> ELSE stored[1]

\* createPoll's guard without the test for empty options
CreatePollInvalid_AllowsEmpty(question, options) ==
    \/ Trim(question) = <<>>
    \/ Len(options) < 2

\* createPoll's guard without the test of the number of options
CreatePollInvalid_NoCount(question, options) ==
    \/ Trim(question) = <<>>
    \/ \E i \in 1..Len(options) : Trim(options[i]) = <<>>

\* createPoll's guard
CreatePollInvalid(question, options) ==
    \/ Trim(question) = <<>>
    \/ Len(options) < 2
    \/ \E i \in 1..Len(options) : Trim(options[i]) = <<>>

\* createPoll's newPoll; Date.now() is t (index is 0-based in the source)
NewPoll(question, options, userId, t) ==
    [id |-> PollId(t),
     question |-> question,
     options |-> [i \in 1..Len(options) |->
                    [id |-> OptId(t, i - 1), text |-> options[i], votes |-> 0]],
     createdBy |-> userId,
     votedBy |-> <<>>]

\* createPoll's updatedPolls with the new poll put first
UpdatedPolls_Prepends(read, newPoll) == <<newPoll>> \o read

\* createPoll's updatedPolls without the polls read
UpdatedPolls_OnlyNew(read, newPoll) == <<newPoll>>

\* createPoll's updatedPolls
UpdatedPolls(read, newPoll) == Append(read, newPoll)

\* CreatePollForm.handleSubmit's validOptions
ValidOptions(fields) == FilterNonEmpty(TrimAll(fields))

\* castVote's checks without the already-voted check
CastVoteError_NoVotedCheck(read, pollId, optionId, userId) ==
    LET pollIndex == FindIndex(read, pollId) IN
    IF pollIndex = 0 THEN ErrPollNotFound
    ELSE IF FindIndex(read[pollIndex].options, optionId) = 0 THEN ErrInvalidOption
    ELSE ""

\* castVote's checks with the option looked up before the voter
CastVoteError_OptionFirst(read, pollId, optionId, userId) ==
    LET pollIndex == FindIndex(read, pollId) IN
    IF pollIndex = 0 THEN ErrPollNotFound
    ELSE IF FindIndex(read[pollIndex].options, optionId) = 0 THEN ErrInvalidOption
    ELSE IF Includes(read[pollIndex].votedBy, userId) THEN ErrAlreadyVoted
    ELSE ""

\* castVote's checks on the collection it read, in the order of the source;
\* "" when none throws
CastVoteError(read, pollId, optionId, userId) ==
    LET pollIndex == FindIndex(read, pollId) IN
    IF pollIndex = 0 THEN ErrPollNotFound
    ELSE IF Includes(read[pollIndex].votedBy, userId) THEN ErrAlreadyVoted
    ELSE IF FindIndex(read[pollIndex].options, optionId) = 0 THEN ErrInvalidOption
    ELSE ""

\* castVote's poll with the vote counted twice
VotedPoll_CountsTwice(poll, optionIndex, userId) ==
    [poll EXCEPT !.options[optionIndex].votes = @ + 2,
                 !.votedBy = Append(@, userId)]

\* castVote's poll with the voter put first in votedBy
VotedPoll_Prepends(poll, optionIndex, userId) ==
    [poll EXCEPT !.options[optionIndex].votes = @ + 1,
                 !.votedBy = <<userId>> \o @]

\* castVote's poll with the options replaced by the voted option alone
VotedPoll_KeepsVotedOnly(poll, optionIndex, userId) ==
    [poll EXCEPT !.options = <<[poll.options[optionIndex] EXCEPT !.votes = @ + 1]>>,
                 !.votedBy = Append(@, userId)]

\* castVote's poll after the two mutations
VotedPoll(poll, optionIndex, userId) ==
    [poll EXCEPT !.options[optionIndex].votes = @ + 1,
                 !.votedBy = Append(@, userId)]

\* castVote recording the voter and writing back before it looks up the option
CastVoteStored_RecordsVoterFirst(read, pollId, optionId, userId) ==
    LET error == CastVoteError(read, pollId, optionId, userId)
        pollIndex == FindIndex(read, pollId)
    IN IF error \in {ErrPollNotFound, ErrAlreadyVoted} THEN read
       ELSE IF error = ErrInvalidOption
       THEN [read EXCEPT ![pollIndex].votedBy = Append(@, userId)]
       ELSE [read EXCEPT ![pollIndex] =
                VotedPoll(read[pollIndex],
                          FindIndex(read[pollIndex].options, optionId), userId)]

\* castVote from the read on: the value of POLLS_KEY when the call settles
CastVoteStored(read, pollId, optionId, userId) ==
    IF CastVoteError(read, pollId, optionId, userId) # "" THEN read
    ELSE LET pollIndex == FindIndex(read, pollId)
             optionIndex == FindIndex(read[pollIndex].options, optionId)
         IN [read EXCEPT ![pollIndex] = VotedPoll(read[pollIndex], optionIndex, userId)]
----------------------------------------------------------------------------
(* Inputs the callers pass *)

Str_Lunch == <<"L","u","n","c","h","?">>
Str_Pizza == <<"P","i","z","z","a">>
Str_Tacos == <<"T","a","c","o","s">>
Str_PaddedPizza == <<" ">> \o Str_Pizza \o <<" ">>
Str_Blank == <<" "," ">>

SeqsUpTo(S, n) == UNION {[1..k -> S] : k \in 0..n}

\* what the callers of Spec pass
Usernames == {<<"a","b">>, <<" ","a","b","c"," ">>}
Questions == {Str_Lunch}
OptionInputs == {<<Str_Pizza, Str_Tacos>>, <<Str_Pizza, <<>>, Str_Tacos>>}
FieldInputs == {<<Str_Pizza, <<>>, Str_Tacos, Str_Blank>>}

\* what the single caller of SpecInputs passes
NameChars == {" ", "a"}
AllUsernames == SeqsUpTo(NameChars, MaxNameLen)
AllQuestions == {<<>>, Str_Blank, Str_Lunch}
OptionTexts == {<<>>, Str_Blank, Str_Pizza, Str_PaddedPizza}
AllOptionInputs == SeqsUpTo(OptionTexts, MaxOptionInputs)
                       \cup {<<Str_Pizza, <<>>, Str_Tacos, Str_Blank>>}
\* the form never holds fewer than two fields
AllFieldInputs == {f \in AllOptionInputs : Len(f) >= 2}

UserIdInputs == {UserId(42), UserId(7)}

\* ids a caller can name: those of the stored polls and one that is not stored
PollIdInputs == {polls[i].id : i \in 1..Len(polls)} \cup {PollId(0)}

\* the first and the last option of the named poll and an id no poll has
OptionIdInputs(pollId) ==
    LET i == FindIndex(polls, pollId) IN
    (IF i = 0 THEN {}
     ELSE {polls[i].options[1].id, polls[i].options[Len(polls[i].options)].id})
       \cup {OptId(0, 0)}

----------------------------------------------------------------------------
(* Processes *)

\* a call not made yet
IdleProc == [op |-> "idle"]

Idle(p) == procs[p].op = "idle"

\* A caller makes the next call; it may overlap the calls not yet settled
Start(p) == Idle(p) /\ \A q \in Slots : q < p => ~Idle(q)
At(p, op, pc) == procs[p].op = op /\ procs[p].pc = pc
Ready(p, op, pc) == At(p, op, pc) /\ procs[p].ready
Done(p, op) == At(p, op, "done")
Failed(p, op) == At(p, op, "failed")

\* createPoll calls that will still append a poll
Creating == {p \in Procs : procs[p].op = "createPoll" /\ procs[p].pc \in {"delay", "getPolls"}}

\* CreatePollForm as it mounts: two empty fields, nothing being submitted
FormInit == [options |-> <<<<>>, <<>>>>, isLoading |-> FALSE]

\* Dashboard as it mounts: no polls yet, loading, the form closed
DashboardInit == [polls |-> <<>>, isLoading |-> TRUE, isCreatingPoll |-> FALSE]

\* CURRENT_USER_KEY outlives a page load: nobody, or the user of an earlier signIn
InitialSessions == {<<>>, <<NewUser(<<"b","o","b">>, ClockStart - 1)>>}

Init ==
    /\ polls = GetPollsRead(Seed(<<>>))
    /\ session \in InitialSessions
    /\ now = ClockStart
    /\ procs = [p \in Slots |-> IdleProc]
    /\ createPollForm = FormInit
    /\ dashboard = DashboardInit

\* Time passes: every timer already set may fire from now on
Tick ==
    /\ now < MaxClock
    /\ now' = now + 1
    /\ procs' = [p \in Slots |->
                   IF procs[p].op # "idle" /\ procs[p].pc \in {"delay", "getPolls"}
                   THEN [procs[p] EXCEPT !.ready = TRUE] ELSE procs[p]]
    /\ UNCHANGED <<polls, session, createPollForm, dashboard>>

(* signIn *)
SignInCall(p, username) ==
    /\ Start(p)
    /\ procs' = [procs EXCEPT ![p] =
            IF SignInInvalid(username)
            THEN [op |-> "signIn", pc |-> "failed", username |-> username,
                  error |-> ErrUsername]
            ELSE [op |-> "signIn", pc |-> "delay", ready |-> FALSE,
                  username |-> username]]
    /\ UNCHANGED <<polls, session, now, createPollForm, dashboard>>

SignInResume(p) ==
    /\ Ready(p, "signIn", "delay")
    /\ LET newUser == NewUser(procs[p].username, now) IN
         /\ session' = <<newUser>>
         /\ procs' = [procs EXCEPT ![p] =
                [op |-> "signIn", pc |-> "done", username |-> procs[p].username,
                 ret |-> newUser]]
    /\ UNCHANGED <<polls, now, createPollForm, dashboard>>

(* signOut *)
SignOutCall(p) ==
    /\ Start(p)
    /\ procs' = [procs EXCEPT ![p] = [op |-> "signOut", pc |-> "delay", ready |-> FALSE]]
    /\ UNCHANGED <<polls, session, now, createPollForm, dashboard>>

SignOutResume(p) ==
    /\ Ready(p, "signOut", "delay")
    /\ session' = SignedOut(session)
    /\ procs' = [procs EXCEPT ![p] = [op |-> "signOut", pc |-> "done"]]
    /\ UNCHANGED <<polls, now, createPollForm, dashboard>>

(* getPolls *)
GetPollsCall(p) ==
    /\ Start(p)
    /\ procs' = [procs EXCEPT ![p] = [op |-> "getPolls", pc |-> "delay", ready |-> FALSE]]
    /\ UNCHANGED <<polls, session, now, createPollForm, dashboard>>

GetPollsResume(p) ==
    /\ Ready(p, "getPolls", "delay")
    /\ procs' = [procs EXCEPT ![p] =
            [op |-> "getPolls", pc |-> "done", ret |-> GetPollsRead(<<polls>>)]]
    /\ UNCHANGED <<polls, session, now, createPollForm, dashboard>>

(* createPoll; form is <<>> for a direct call and <<fields>> for a call made
   by CreatePollForm.handleSubmit *)
CreatePollStart(p, question, options, userId, form) ==
    /\ Start(p)
    /\ Len(polls) + Cardinality(Creating) < MaxPolls
    /\ procs' = [procs EXCEPT ![p] =
            IF CreatePollInvalid(question, options)
            THEN [op |-> "createPoll", pc |-> "failed", question |-> question,
                  options |-> options, userId |-> userId, form |-> form,
                  error |-> ErrCreatePoll]
            ELSE [op |-> "createPoll", pc |-> "delay", ready |-> FALSE,
                  question |-> question, options |-> options, userId |-> userId,
                  form |-> form]]
    /\ UNCHANGED <<polls, session, now, createPollForm, dashboard>>

CreatePollCall(p, question, options, userId) ==
    CreatePollStart(p, question, options, userId, <<>>)

\* CreatePollForm.handleSubmit -> Dashboard.handleCreatePoll, for the signed-in
\* user (App's user state is the session record signIn and signOut leave)
HandleSubmit(p, question, fields) ==
    /\ session # <<>>
    /\ CreatePollStart(p, question, ValidOptions(fields), session[1].id, <<fields>>)

CreatePollResume(p) ==
    /\ Ready(p, "createPoll", "delay")
    /\ procs' = [procs EXCEPT ![p] =
            [procs[p] EXCEPT !.pc = "getPolls", !.ready = FALSE] @@
            [newPoll |-> NewPoll(procs[p].question, procs[p].options,
                                 procs[p].userId, now)]]
    /\ UNCHANGED <<polls, session, now, createPollForm, dashboard>>

CreatePollWrite(p) ==
    /\ Ready(p, "createPoll", "getPolls")
    /\ polls' = UpdatedPolls(GetPollsRead(<<polls>>), procs[p].newPoll)
    /\ procs' = [procs EXCEPT ![p] =
            [op |-> "createPoll", pc |-> "done", question |-> procs[p].question,
             options |-> procs[p].options, userId |-> procs[p].userId,
             form |-> procs[p].form, ret |-> procs[p].newPoll]]
    /\ UNCHANGED <<session, now, createPollForm, dashboard>>

(* castVote *)
CastVoteCall(p, pollId, optionId, userId) ==
    /\ Start(p)
    /\ procs' = [procs EXCEPT ![p] =
            [op |-> "castVote", pc |-> "delay", ready |-> FALSE,
             pollId |-> pollId, optionId |-> optionId, userId |-> userId]]
    /\ UNCHANGED <<polls, session, now, createPollForm, dashboard>>

\* The read, the checks and the write back; a throw leaves the key as read
CastVoteSettle(p) ==
    /\ Ready(p, "castVote", "delay")
    /\ LET read == GetPollsRead(<<polls>>)
           a == procs[p]
           error == CastVoteError(read, a.pollId, a.optionId, a.userId)
           stored == CastVoteStored(read, a.pollId, a.optionId, a.userId)
       IN /\ polls' = stored
          /\ procs' = [procs EXCEPT ![p] =
                IF error # ""
                THEN [op |-> "castVote", pc |-> "failed", pollId |-> a.pollId,
                      optionId |-> a.optionId, userId |-> a.userId, error |-> error]
                ELSE [op |-> "castVote", pc |-> "done", pollId |-> a.pollId,
                      optionId |-> a.optionId, userId |-> a.userId,
                      ret |-> stored[FindIndex(read, a.pollId)]]]
    /\ UNCHANGED <<session, now, createPollForm, dashboard>>

Next ==
    \/ Tick
    \/ \E p \in Procs, username \in Usernames : SignInCall(p, username)
    \/ \E p \in Procs : SignInResume(p)
    \/ \E p \in Procs : SignOutCall(p)
    \/ \E p \in Procs : SignOutResume(p)
    \/ \E p \in Procs : GetPollsCall(p)
    \/ \E p \in Procs : GetPollsResume(p)
    \/ \E p \in Procs, question \in Questions, options \in OptionInputs,
          userId \in {UserId(7)} : CreatePollCall(p, question, options, userId)
    \/ \E p \in Procs, question \in Questions, fields \in FieldInputs :
          HandleSubmit(p, question, fields)
    \/ \E p \in Procs : CreatePollResume(p)
    \/ \E p \in Procs : CreatePollWrite(p)
    \/ \E p \in Procs, pollId \in PollIdInputs, userId \in UserIdInputs :
          \E optionId \in OptionIdInputs(pollId) :
              CastVoteCall(p, pollId, optionId, userId)
    \/ \E p \in Procs : CastVoteSettle(p)

Spec == Init /\ [][Next]_vars

\* The page is loaded again: the initializer runs on what is stored, the calls
\* the old page left pending are gone with it, the components mount afresh
Reload(p) ==
    /\ Start(p)
    /\ polls' = GetPollsRead(Seed(<<polls>>))
    /\ procs' = [q \in Slots |->
                   IF q = p THEN [op |-> "load", pc |-> "done"]
                   ELSE IF procs[q].op # "idle" /\ procs[q].pc \in {"delay", "getPolls"}
                        THEN [procs[q] EXCEPT !.pc = "dropped"]
                        ELSE procs[q]]
    /\ createPollForm' = FormInit
    /\ dashboard' = DashboardInit
    /\ UNCHANGED <<session, now>>

NextSeed ==
    \/ Next
    \/ \E p \in Procs : Reload(p)

\* The calls of Spec, with page loads between them
SpecSeed == Init /\ [][NextSeed]_vars

\* One caller, one call, every input of the sets above
NextInputs ==
    \/ Tick
    \/ \E username \in AllUsernames : SignInCall(1, username)
    \/ SignInResume(1)
    \/ \E question \in AllQuestions, options \in AllOptionInputs :
          CreatePollCall(1, question, options, UserId(7))
    \/ \E question \in AllQuestions, fields \in AllFieldInputs :
          HandleSubmit(1, question, fields)
    \/ CreatePollResume(1)
    \/ CreatePollWrite(1)

SpecInputs == Init /\ [][NextInputs]_vars

----------------------------------------------------------------------------
(* Dashboard.  A run of one of its handlers takes a slot of procs; its timers
   carry the time they are due, in units of 100 ms, and fire at that time:
   the clock does not pass a due timer.  While isLoading is set Dashboard
   renders "Loading polls..." in place of the form and the cards, so the form
   is unmounted and mounts afresh afterwards.  The user is App's user state,
   which is the session record as long as nobody signs in or out.  What was
   typed into the form is an input of the submit. *)

\* fetchPolls showing the polls in the order stored
Reverse_Keeps(s) == s

\* fetchedPolls.reverse()
Reverse(s) == [i \in 1..Len(s) |-> s[Len(s) + 1 - i]]

Pending(p) ==
    /\ procs[p].op \in {"mount", "handleVote", "handleCreatePoll"}
    /\ procs[p].pc \in {"delay", "getPolls", "fetchPolls"}

Due(p, op, pc) == At(p, op, pc) /\ procs[p].due = now

\* fetchPolls up to its await: setError(null); setIsLoading(true)
Loading(d) == [d EXCEPT !.isLoading = TRUE]

DashboardTick ==
    /\ ~Idle(1)
    /\ now < ClockStart + DashboardTicks
    /\ \A p \in Handlers : Pending(p) => procs[p].due > now
    /\ now' = now + 1
    /\ UNCHANGED <<polls, session, procs, createPollForm, dashboard>>

\* useEffect(() => { fetchPolls() }, []) as the page is loaded
DashboardMount(p) ==
    /\ p = 1 /\ Start(p)
    /\ procs' = [procs EXCEPT ![p] =
            [op |-> "mount", pc |-> "fetchPolls", due |-> now + GetPollsDelay]]
    /\ dashboard' = Loading(dashboard)
    /\ UNCHANGED <<polls, session, now, createPollForm>>

\* fetchPolls after its await: setPolls(fetchedPolls.reverse());
\* setIsLoading(false); the handler that awaited it returns
FetchPollsResume(p) ==
    /\ Pending(p) /\ procs[p].pc = "fetchPolls" /\ procs[p].due = now
    /\ dashboard' = [dashboard EXCEPT
            !.polls = Reverse(GetPollsRead(<<polls>>)), !.isLoading = FALSE]
    /\ procs' = [procs EXCEPT ![p] =
            IF procs[p].op = "mount" THEN [op |-> "mount", pc |-> "done"]
            ELSE IF procs[p].op = "handleVote"
            THEN [op |-> "handleVote", pc |-> "done", pollId |-> procs[p].pollId,
                  optionId |-> procs[p].optionId, userId |-> procs[p].userId]
            ELSE [op |-> "handleCreatePoll", pc |-> "done", ret |-> procs[p].ret]]
    /\ UNCHANGED <<polls, session, now, createPollForm>>

\* the "Create Poll" button: setIsCreatingPoll(true); the form mounts
OpenForm ==
    /\ ~dashboard.isLoading /\ ~dashboard.isCreatingPoll /\ session # <<>>
    /\ dashboard' = [dashboard EXCEPT !.isCreatingPoll = TRUE]
    /\ createPollForm' = FormInit
    /\ UNCHANGED <<polls, session, now, procs>>

\* onCancel: setIsCreatingPoll(false); the form unmounts
CancelForm ==
    /\ ~dashboard.isLoading /\ dashboard.isCreatingPoll
    /\ dashboard' = [dashboard EXCEPT !.isCreatingPoll = FALSE]
    /\ createPollForm' = FormInit
    /\ UNCHANGED <<polls, session, now, procs>>

\* CreatePollForm.handleSubmit -> Dashboard.handleCreatePoll -> createPoll up
\* to its timer; the submit button is disabled while the form's isLoading
DashboardSubmit(p, question, fields) ==
    /\ Start(p)
    /\ ~dashboard.isLoading /\ dashboard.isCreatingPoll
    /\ ~createPollForm.isLoading
    /\ session # <<>>
    /\ LET validOptions == ValidOptions(fields) IN
         IF CreatePollInvalid(question, validOptions)
         THEN /\ procs' = [procs EXCEPT ![p] =
                    [op |-> "handleCreatePoll", pc |-> "failed",
                     error |-> ErrCreatePoll]]
              /\ UNCHANGED createPollForm
         ELSE /\ procs' = [procs EXCEPT ![p] =
                    [op |-> "handleCreatePoll", pc |-> "delay",
                     due |-> now + CreatePollDelay, question |-> question,
                     options |-> validOptions, userId |-> session[1].id]]
              /\ createPollForm' = [createPollForm EXCEPT !.isLoading = TRUE]
    /\ UNCHANGED <<polls, session, now, dashboard>>

\* createPoll after its timer: newPoll, then getPolls is called
DashboardCreateResume(p) ==
    /\ Due(p, "handleCreatePoll", "delay")
    /\ procs' = [procs EXCEPT ![p] =
            [op |-> "handleCreatePoll", pc |-> "getPolls",
             due |-> now + GetPollsDelay,
             newPoll |-> NewPoll(procs[p].question, procs[p].options,
                                 procs[p].userId, now)]]
    /\ UNCHANGED <<polls, session, now, createPollForm, dashboard>>

\* createPoll after getPolls' timer: the write; then handleCreatePoll goes
\* on: setIsCreatingPoll(false); fetchPolls() up to its await
DashboardCreateWrite(p) ==
    /\ Due(p, "handleCreatePoll", "getPolls")
    /\ polls' = UpdatedPolls(GetPollsRead(<<polls>>), procs[p].newPoll)
    /\ dashboard' = Loading([dashboard EXCEPT !.isCreatingPoll = FALSE])
    /\ createPollForm' = FormInit
    /\ procs' = [procs EXCEPT ![p] =
            [op |-> "handleCreatePoll", pc |-> "fetchPolls",
             due |-> now + GetPollsDelay, ret |-> procs[p].newPoll]]
    /\ UNCHANGED <<session, now>>

\* PollCard.handleVote -> Dashboard.handleVote -> castVote up to its timer,
\* on a card that is shown and does not show the user as having voted
DashboardVote(p, pollId, optionId) ==
    /\ Start(p)
    /\ ~dashboard.isLoading /\ ~dashboard.isCreatingPoll
    /\ session # <<>>
    /\ \E i \in 1..Len(dashboard.polls) :
          /\ dashboard.polls[i].id = pollId
          /\ ~Includes(dashboard.polls[i].votedBy, session[1].id)
          /\ FindIndex(dashboard.polls[i].options, optionId) # 0
    /\ procs' = [procs EXCEPT ![p] =
            [op |-> "handleVote", pc |-> "delay",
             due |-> now + CastVoteDelay + GetPollsDelay,
             pollId |-> pollId, optionId |-> optionId, userId |-> session[1].id]]
    /\ UNCHANGED <<polls, session, now, createPollForm, dashboard>>

\* castVote after getPolls' timer: the checks and the write; on success
\* handleVote goes on with fetchPolls() up to its await
DashboardVoteSettle(p) ==
    /\ Due(p, "handleVote", "delay")
    /\ LET read == GetPollsRead(<<polls>>)
           a == procs[p]
           error == CastVoteError(read, a.pollId, a.optionId, a.userId)
       IN /\ polls' = CastVoteStored(read, a.pollId, a.optionId, a.userId)
          /\ IF error # ""
             THEN /\ procs' = [procs EXCEPT ![p] =
                        [op |-> "handleVote", pc |-> "failed", pollId |-> a.pollId,
                         optionId |-> a.optionId, userId |-> a.userId,
                         error |-> error]]
                  /\ UNCHANGED <<createPollForm, dashboard>>
             ELSE /\ procs' = [procs EXCEPT ![p] =
                        [op |-> "handleVote", pc |-> "fetchPolls",
                         due |-> now + GetPollsDelay, pollId |-> a.pollId,
                         optionId |-> a.optionId, userId |-> a.userId]]
                  /\ dashboard' = Loading(dashboard)
                  /\ createPollForm' = FormInit
    /\ UNCHANGED <<session, now>>

\* the polls shown, and of each its first two options
ShownVotes ==
    {<<dashboard.polls[i].id, dashboard.polls[i].options[k].id>> :
        i \in 1..Len(dashboard.polls), k \in {1, 2}}

NextDashboard ==
    \/ DashboardTick
    \/ \E p \in Handlers : DashboardMount(p)
    \/ \E p \in Handlers : FetchPollsResume(p)
    \/ OpenForm
    \/ CancelForm
    \/ \E p \in Handlers, question \in Questions, fields \in FieldInputs :
          DashboardSubmit(p, question, fields)
    \/ \E p \in Handlers : DashboardCreateResume(p)
    \/ \E p \in Handlers : DashboardCreateWrite(p)
    \/ \E p \in Handlers, vote \in ShownVotes : DashboardVote(p, vote[1], vote[2])
    \/ \E p \in Handlers : DashboardVoteSettle(p)

SpecDashboard == Init /\ [][NextDashboard]_vars

----------------------------------------------------------------------------
(* castVote and createPoll, one step per task of the event loop.  The timer
   of getPolls fires in a macrotask; getPolls' read after its await is a
   microtask of it, and what the caller does after `await getPolls()` is the
   microtask after that.  The event loop runs the microtasks that are queued
   before it starts another macrotask, so no call is made and no timer fires
   while one is pending.  The caller keeps what getPolls returned in `read`. *)

\* the caller going on in a task of its own after getPolls returned
ContinuationAfterGetPolls_Macrotask == "macrotask"

\* `const polls = await getPolls()`: the caller goes on in a microtask
ContinuationAfterGetPolls == "microtask"

MicrotaskPending(p) ==
    /\ procs[p].op \in {"castVote", "createPoll"}
    /\ \/ procs[p].pc = "read"
       \/ procs[p].pc = "settle" /\ ContinuationAfterGetPolls = "microtask"

MicrotasksDone == \A p \in Procs : ~MicrotaskPending(p)

OverlapCastVoteCall(p, pollId, optionId, userId) ==
    MicrotasksDone /\ CastVoteCall(p, pollId, optionId, userId)

OverlapCreatePollCall(p, question, options, userId) ==
    MicrotasksDone /\ CreatePollCall(p, question, options, userId)

OverlapCreatePollResume(p) ==
    MicrotasksDone /\ CreatePollResume(p)

\* getPolls' timer fires: res() queues getPolls' continuation
GetPollsTimer(p) ==
    /\ MicrotasksDone
    /\ Ready(p, "castVote", "delay") \/ Ready(p, "createPoll", "getPolls")
    /\ procs' = [procs EXCEPT ![p] = [@ EXCEPT !.pc = "read"]]
    /\ UNCHANGED <<polls, session, now, createPollForm, dashboard>>

\* getPolls after its await: the read; its return queues the caller
GetPollsReturn(p) ==
    /\ procs[p].op \in {"castVote", "createPoll"} /\ procs[p].pc = "read"
    /\ procs' = [procs EXCEPT ![p] =
            [@ EXCEPT !.pc = "settle"] @@ [read |-> GetPollsRead(<<polls>>)]]
    /\ UNCHANGED <<polls, session, now, createPollForm, dashboard>>

\* the caller after `await getPolls()`: castVote's checks and write on what
\* it read, or createPoll's write of what it read with the new poll
OverlapSettle(p) ==
    /\ procs[p].op \in {"castVote", "createPoll"} /\ procs[p].pc = "settle"
    /\ MicrotaskPending(p) \/ MicrotasksDone
    /\ LET a == procs[p] IN
         IF a.op = "createPoll"
         THEN /\ polls' = UpdatedPolls(a.read, a.newPoll)
              /\ procs' = [procs EXCEPT ![p] =
                    [op |-> "createPoll", pc |-> "done", question |-> a.question,
                     options |-> a.options, userId |-> a.userId,
                     form |-> a.form, ret |-> a.newPoll]]
         ELSE LET error == CastVoteError(a.read, a.pollId, a.optionId, a.userId)
                  stored == CastVoteStored(a.read, a.pollId, a.optionId, a.userId)
              IN IF error # ""
                 THEN /\ UNCHANGED polls
                      /\ procs' = [procs EXCEPT ![p] =
                            [op |-> "castVote", pc |-> "failed", pollId |-> a.pollId,
                             optionId |-> a.optionId, userId |-> a.userId,
                             error |-> error]]
                 ELSE /\ polls' = stored
                      /\ procs' = [procs EXCEPT ![p] =
                            [op |-> "castVote", pc |-> "done", pollId |-> a.pollId,
                             optionId |-> a.optionId, userId |-> a.userId,
                             ret |-> stored[FindIndex(a.read, a.pollId)]]]
    /\ UNCHANGED <<session, now, createPollForm, dashboard>>

NextOverlap ==
    \/ Tick
    \/ \E p \in Procs, pollId \in PollIdInputs, userId \in UserIdInputs :
          \E optionId \in OptionIdInputs(pollId) :
              OverlapCastVoteCall(p, pollId, optionId, userId)
    \/ \E p \in Procs, question \in Questions, options \in OptionInputs :
          OverlapCreatePollCall(p, question, options, UserId(7))
    \/ \E p \in Procs : OverlapCreatePollResume(p)
    \/ \E p \in Procs : GetPollsTimer(p)
    \/ \E p \in Procs : GetPollsReturn(p)
    \/ \E p \in Procs : OverlapSettle(p)

SpecOverlap == Init /\ [][NextOverlap]_vars

----------------------------------------------------------------------------
(* CreatePollForm: the handlers of its option fields.  Index i of the source
   is place i + 1 here. *)

MaxFormOptions == 10   \* addOption: if (options.length < 10)
MinFormOptions == 2    \* removeOption: if (options.length > 2)

\* what is typed into a field
FieldTexts == {<<>>, Str_Pizza}

\* addOption's test letting an eleventh field in
CanAddOption_OffByOne(options) == Len(options) <= MaxFormOptions

\* addOption's test
CanAddOption(options) == Len(options) < MaxFormOptions

\* removeOption's test
CanRemoveOption(options) == Len(options) > MinFormOptions

\* options.filter((_, i) => i !== index)
WithoutIndex(options, index) ==
    [i \in 1..(Len(options) - 1) |-> IF i < index THEN options[i] ELSE options[i + 1]]

AddOption ==
    /\ createPollForm' =
          IF CanAddOption(createPollForm.options)
          THEN [createPollForm EXCEPT !.options = Append(@, <<>>)]
          ELSE createPollForm
    /\ UNCHANGED <<polls, session, now, procs, dashboard>>

RemoveOption(index) ==
    /\ createPollForm' =
          IF CanRemoveOption(createPollForm.options)
          THEN [createPollForm EXCEPT !.options = WithoutIndex(@, index)]
          ELSE createPollForm
    /\ UNCHANGED <<polls, session, now, procs, dashboard>>

HandleOptionChange(index, value) ==
    /\ createPollForm' = [createPollForm EXCEPT !.options[index] = value]
    /\ UNCHANGED <<polls, session, now, procs, dashboard>>

\* the fields rendered, each with its input and its remove button
FieldIndexes == 1..Len(createPollForm.options)

NextForm ==
    \/ AddOption
    \/ \E index \in FieldIndexes : RemoveOption(index)
    \/ \E index \in FieldIndexes, value \in FieldTexts :
          HandleOptionChange(index, value)

SpecForm == Init /\ [][NextForm]_vars

----------------------------------------------------------------------------
(* Vocabulary of the properties *)

RECURSIVE SumVotes(_)
SumVotes(options) ==
    IF options = <<>> THEN 0 ELSE Head(options).votes + SumVotes(Tail(options))

\* votes the initial collection gives the poll of this id
SeededVotes(pollId) ==
    LET i == FindIndex(initialPolls, pollId) IN
    IF i = 0 THEN 0 ELSE SumVotes(initialPolls[i].options)

NoDuplicates(s) == \A i, j \in 1..Len(s) : s[i] = s[j] => i = j

Texts(options) == [i \in 1..Len(options) |-> options[i].text]

\* call p settles in this step, as a success or as a failure
Succeeds(p, op) == ~Done(p, op) /\ Done(p, op)'
Fails(p, op) == ~Failed(p, op) /\ Failed(p, op)'

----------------------------------------------------------------------------
(* C1 *)

\* C1 (as stated): in every reachable state, for every poll of the collection
\* the sum of its options' votes equals the number of entries of its votedBy.
\* The seeded polls carry 38 and 43 votes with an empty votedBy.
C1_SumEqualsVoters ==
    \A i \in 1..Len(polls) :
        SumVotes(polls[i].options) = Len(polls[i].votedBy)

\* C1 (amended): in every reachable state, for every poll of the collection
\* the sum of its options' votes equals the number of entries of its votedBy
\* plus the votes the poll was seeded with (38 for poll-1, 43 for poll-2, none
\* for a poll made by createPoll).
C1_SumIsSeedPlusVoters ==
    \A i \in 1..Len(polls) :
        SumVotes(polls[i].options)
            = SeededVotes(polls[i].id) + Len(polls[i].votedBy)

\* a vote was cast on a poll made by createPoll
C1_Witness ==
    /\ \E i \in 1..Len(polls) :
          SeededVotes(polls[i].id) = 0 /\ Len(polls[i].votedBy) = 1
    /\ \E p \in Procs : Done(p, "castVote")

----------------------------------------------------------------------------
(* C2 *)

SameVote(p, q) ==
    /\ procs[p].op = "castVote" /\ procs[q].op = "castVote" /\ p # q
    /\ procs[p].pollId = procs[q].pollId
    /\ procs[p].userId = procs[q].userId

\* C2: no user id appears twice in a poll's votedBy; of the castVote calls of
\* one user on one poll at most one succeeds, and any that settles after a
\* successful one, whenever it was started, fails with the already-voted error
\* and leaves the collection as it was.
C2_OneVotePerUser ==
    /\ [](\A i \in 1..Len(polls) : NoDuplicates(polls[i].votedBy))
    /\ [](\A p, q \in Procs :
            SameVote(p, q) => ~(Done(p, "castVote") /\ Done(q, "castVote")))
    /\ [][\A p, q \in Procs :
            (SameVote(p, q) /\ Done(p, "castVote") /\ At(q, "castVote", "delay")
                /\ ~At(q, "castVote", "delay")')
            => /\ Failed(q, "castVote")'
               /\ procs'[q].error = ErrAlreadyVoted
               /\ polls' = polls]_vars

\* a second vote of the same user on the same poll was refused
C2_Witness ==
    \E p, q \in Procs :
        /\ SameVote(p, q) /\ Done(p, "castVote") /\ Failed(q, "castVote")
        /\ procs[q].error = ErrAlreadyVoted

----------------------------------------------------------------------------
(* C3 *)

\* C3: a castVote that succeeds raises the votes of the named option of the
\* named poll by exactly 1 and appends the user id to that poll's votedBy; the
\* other options' votes, the poll's id, question, option ids and texts and
\* createdBy, every other poll and the session record stay as they were, and
\* the poll returned is the poll now stored.
C3_VoteEffect ==
    [][\A p \in Procs : Succeeds(p, "castVote") =>
        LET i == FindIndex(polls, procs[p].pollId)
            old == polls[i]
            new == polls'[i]
        IN /\ i # 0
           /\ Len(polls') = Len(polls)
           /\ \A j \in 1..Len(polls) : j # i => polls'[j] = polls[j]
           /\ new.id = old.id /\ new.question = old.question
           /\ new.createdBy = old.createdBy
           /\ Len(new.options) = Len(old.options)
           /\ \A k \in 1..Len(old.options) :
                /\ new.options[k].id = old.options[k].id
                /\ new.options[k].text = old.options[k].text
                /\ new.options[k].votes = old.options[k].votes
                      + (IF old.options[k].id = procs[p].optionId THEN 1 ELSE 0)
           /\ \E k \in 1..Len(old.options) : old.options[k].id = procs[p].optionId
           /\ new.votedBy = old.votedBy \o <<procs[p].userId>>
           /\ session' = session
           /\ procs'[p].ret = new]_vars

\* a vote was added to a poll that already had a voter
C3_Witness ==
    \E p \in Procs : Done(p, "castVote") /\ Len(procs[p].ret.votedBy) = 2

----------------------------------------------------------------------------
(* C4 *)

\* C4: castVote on an id that no stored poll has fails with the not-found
\* error whatever option and user it names; castVote by a user already in the
\* poll's votedBy fails with the already-voted error whatever option it names,
\* an id the poll does not have included.
C4_CheckOrder ==
    [][\A p \in Procs :
        (At(p, "castVote", "delay") /\ ~At(p, "castVote", "delay")') =>
        LET i == FindIndex(polls, procs[p].pollId) IN
        /\ i = 0 => Failed(p, "castVote")' /\ procs'[p].error = ErrPollNotFound
        /\ (i # 0 /\ Includes(polls[i].votedBy, procs[p].userId))
              => Failed(p, "castVote")' /\ procs'[p].error = ErrAlreadyVoted]_vars

\* a user who had voted named an option the poll does not have
C4_Witness ==
    \E p \in Procs :
        /\ Failed(p, "castVote") /\ procs[p].error = ErrAlreadyVoted
        /\ LET i == FindIndex(polls, procs[p].pollId) IN
             i # 0 /\ FindIndex(polls[i].options, procs[p].optionId) = 0

----------------------------------------------------------------------------
(* C5 *)

\* C5: a castVote that fails leaves the collection and the session record as
\* they were, and fails with the error of its case: not-found for an id no
\* stored poll has, invalid-option for an option id the poll does not have
\* (the user not having voted), already-voted for a user in the poll's votedBy.
C5_FailureChangesNothing ==
    [][\A p \in Procs : Fails(p, "castVote") =>
        LET i == FindIndex(polls, procs[p].pollId) IN
        /\ polls' = polls
        /\ session' = session
        /\ procs'[p].error \in {ErrPollNotFound, ErrInvalidOption, ErrAlreadyVoted}
        /\ procs'[p].error = ErrPollNotFound <=> i = 0
        /\ procs'[p].error = ErrAlreadyVoted
              <=> (i # 0 /\ Includes(polls[i].votedBy, procs[p].userId))
        /\ procs'[p].error = ErrInvalidOption
              => FindIndex(polls[i].options, procs[p].optionId) = 0]_vars

\* a vote for an option the poll does not have was refused
C5_Witness ==
    \E p \in Procs : Failed(p, "castVote") /\ procs[p].error = ErrInvalidOption

----------------------------------------------------------------------------
(* C6 *)

IsCreatePoll(p) == procs[p].op = "createPoll"
Direct(p) == IsCreatePoll(p) /\ procs[p].form = <<>>
FromForm(p) == IsCreatePoll(p) /\ procs[p].form # <<>>

----------------------------------------------------------------------------
(* C7 *)

TooFewOptions(p) ==
    \/ Trim(procs[p].question) = <<>>
    \/ Len(ValidOptions(procs[p].options)) < 2

\* C7: createPoll with a question that is empty after trimming, or with fewer
\* than two options that are non-empty after trimming, fails with the
\* validation error, and the failed call leaves the collection as it was.
C7_InvalidPollRejected ==
    /\ [](\A p \in Procs : (IsCreatePoll(p) /\ TooFewOptions(p)) =>
            Failed(p, "createPoll") /\ procs[p].error = ErrCreatePoll)
    /\ [][\A p \in Procs : Fails(p, "createPoll") => polls' = polls]_vars

\* a call with a question and a single option was refused
C7_Witness ==
    \E p \in Procs :
        /\ Failed(p, "createPoll") /\ Trim(procs[p].question) # <<>>
        /\ Len(procs[p].options) = 1 /\ Trim(procs[p].options[1]) # <<>>

----------------------------------------------------------------------------
(* C8 *)

\* poll is the poll made by createPoll call p, whatever votes it got since
IsPollOf(poll, p) ==
    /\ poll.id = procs[p].ret.id
    /\ poll.question = procs[p].ret.question
    /\ poll.createdBy = procs[p].ret.createdBy
    /\ Len(poll.options) = Len(procs[p].ret.options)
    /\ \A k \in 1..Len(poll.options) :
          /\ poll.options[k].id = procs[p].ret.options[k].id
          /\ poll.options[k].text = procs[p].ret.options[k].text

\* C8: a createPoll that succeeds returns a poll whose options all have 0
\* votes, whose votedBy is empty and whose createdBy is the user id passed; it
\* puts that poll last in the collection and leaves the polls stored before
\* as they were and in their order; the poll stays in the collection, so a
\* getPolls that completes afterwards returns a collection that holds it.
C8_CreateAppends ==
    /\ [][\A p \in Procs : Succeeds(p, "createPoll") =>
            LET r == procs'[p].ret IN
            /\ \A k \in 1..Len(r.options) : r.options[k].votes = 0
            /\ r.votedBy = <<>>
            /\ r.createdBy = procs[p].userId
            /\ r.question = procs[p].question
            /\ Len(polls') = Len(polls) + 1
            /\ polls'[Len(polls')] = r
            /\ \A i \in 1..Len(polls) : polls'[i] = polls[i]]_vars
    /\ [](\A p \in Procs : Done(p, "createPoll") =>
            \E i \in 1..Len(polls) : IsPollOf(polls[i], p))
    /\ [][\A p, q \in Procs :
            (Done(p, "createPoll") /\ Succeeds(q, "getPolls")) =>
            /\ procs'[q].ret = polls
            /\ \E i \in 1..Len(procs'[q].ret) : IsPollOf(procs'[q].ret[i], p)]_vars

\* a getPolls returned the collection with the poll a createPoll had added
C8_Witness ==
    \E p, q \in Procs :
        /\ Done(p, "createPoll") /\ Done(q, "getPolls")
        /\ Len(procs[q].ret) = Len(initialPolls) + 1
        /\ procs[q].ret[Len(procs[q].ret)] = procs[p].ret

----------------------------------------------------------------------------
(* C9 *)

\* C9: signIn with a username whose trimmed length is at least 3 is never
\* refused; when it completes the session record is a user whose username is
\* the trimmed input, whatever the record held before, that user is the one
\* returned, and getCurrentUser then returns it.
C9_SignInStoresTrimmed ==
    /\ [](\A p \in Procs :
            (procs[p].op = "signIn" /\ Len(Trim(procs[p].username)) >= 3)
                => ~Failed(p, "signIn"))
    /\ [][\A p \in Procs : Succeeds(p, "signIn") =>
            /\ Len(session') = 1
            /\ session'[1].username = Trim(procs[p].username)
            /\ procs'[p].ret = session'[1]
            /\ GetCurrentUser(session') = <<procs'[p].ret>>]_vars
    /\ [](\A p \in Procs : Done(p, "signIn") =>
            /\ GetCurrentUser(session) = <<procs[p].ret>>
            /\ Len(procs[p].ret.username) >= 3)

\* a username with blanks around it was signed in and is the session record
C9_Witness ==
    \E p \in Procs :
        /\ Done(p, "signIn")
        /\ procs[p].username # Trim(procs[p].username)
        /\ session = <<procs[p].ret>>
        /\ session \notin InitialSessions

----------------------------------------------------------------------------
(* C10 *)

\* C10: signIn with a username whose trimmed length is less than 3, the empty
\* string included, fails with the validation error, and the failed call
\* leaves the session record and the collection as they were.
C10_ShortNameRejected ==
    /\ [](\A p \in Procs :
            (procs[p].op = "signIn" /\ Len(Trim(procs[p].username)) < 3)
                => Failed(p, "signIn") /\ procs[p].error = ErrUsername)
    /\ [][\A p \in Procs : Fails(p, "signIn") =>
            session' = session /\ polls' = polls]_vars

\* a username of three characters or more that trims to fewer was refused
\* while a user was signed in
C10_Witness ==
    \E p \in Procs :
        /\ Failed(p, "signIn") /\ Len(procs[p].username) >= 3
        /\ session # <<>>

----------------------------------------------------------------------------
(* C11 *)

\* C11: when a signOut call completes the session record is absent and
\* getCurrentUser returns null, whether a user was signed in before or not;
\* no signOut call ever fails; signing out of the state a signOut left gives
\* that same state; and the completing call leaves the collection as it was.
C11_SignOutClearsSession ==
    /\ [](\A p \in Procs : procs[p].op = "signOut" => procs[p].pc # "failed")
    /\ [][\A p \in Procs : Succeeds(p, "signOut") =>
            /\ session' = <<>>
            /\ GetCurrentUser(session') = <<>>
            /\ SignedOut(session') = session'
            /\ polls' = polls]_vars

\* two signOut calls completed, the later one with nobody signed in
C11_Witness ==
    /\ \A p \in Procs : Done(p, "signOut")
    /\ session = <<>>

----------------------------------------------------------------------------
(* C12 *)

\* a page load happens in this step
Loads(p) == procs[p].op # "load" /\ procs'[p].op = "load"

\* C12: the initializer writes the two example polls when the collection key
\* is absent, as at the first load; whenever it runs again with the key
\* present, whatever collection createPoll and castVote have left there, the
\* stored collection is after the load what it was before.
C12_SeedOnlyWhenAbsent ==
    /\ polls = initialPolls
    /\ [][\A p \in Procs : Loads(p) =>
            /\ Seed(<<polls>>) = <<polls>>
            /\ polls' = polls]_vars

\* the page was loaded again after a vote had been stored
C12_Witness ==
    \E p, q \in Procs :
        /\ q < p /\ Done(q, "castVote") /\ procs[p].op = "load"
        /\ \E i \in 1..Len(polls) : polls[i].votedBy # <<>>

----------------------------------------------------------------------------
(* C13 *)

\* C13: in every step of every operation (signIn, signOut, getPolls,
\* createPoll, castVote, a page load that runs the initializer again) every
\* poll of the collection stays in it at its place, every user id in its
\* votedBy stays in its votedBy, and no option's votes get smaller; hence a
\* user id once in a poll's votedBy is there in every later state.
C13_VotesOnlyGrow ==
    [][/\ Len(polls') >= Len(polls)
       /\ \A i \in 1..Len(polls) :
            /\ polls'[i].id = polls[i].id
            /\ \A k \in 1..Len(polls[i].votedBy) :
                  Includes(polls'[i].votedBy, polls[i].votedBy[k])
            /\ Len(polls'[i].options) >= Len(polls[i].options)
            /\ \A o \in 1..Len(polls[i].options) :
                  /\ polls'[i].options[o].id = polls[i].options[o].id
                  /\ polls'[i].options[o].votes >= polls[i].options[o].votes]_vars

\* a vote was stored, and it is still there after a later createPoll has
\* written the collection
C13_Witness ==
    \E p, q \in Procs :
        /\ p < q /\ Done(p, "castVote") /\ Done(q, "createPoll")
        /\ Len(polls) > Len(initialPolls)
        /\ \E i \in 1..Len(polls) :
              polls[i].id = procs[p].pollId /\ Includes(polls[i].votedBy, procs[p].userId)

----------------------------------------------------------------------------
(* C14 *)

\* the re-fetch that follows the creation of handler run p completes in this step
Refetched(p) ==
    At(p, "handleCreatePoll", "fetchPolls") /\ Done(p, "handleCreatePoll")'

----------------------------------------------------------------------------
(* C15 *)

\* C15 (as stated): in every reachable state all polls of the stored
\* collection have pairwise distinct ids, whatever createPoll calls have
\* succeeded, overlapping or resumed at the same reading of the clock, so
\* that castVote finds every stored poll by its id.  createPoll makes the id
\* from Date.now() alone: two calls resumed at the same reading store two
\* polls of one id, and castVote's findIndex reaches only the first.
C15_PollIdsDistinct ==
    /\ \A i, j \in 1..Len(polls) : polls[i].id = polls[j].id => i = j
    /\ \A i \in 1..Len(polls) : FindIndex(polls, polls[i].id) = i

----------------------------------------------------------------------------
(* C16 *)

\* C16 (as stated): in every reachable state any two signIn calls that have
\* succeeded returned users of different ids, also when the calls overlapped
\* or resumed at the same reading of the clock.  signIn makes the id from
\* Date.now() alone: two calls resumed at the same reading return one id, and
\* the two users share one entry of a poll's votedBy.
C16_UserIdsDistinct ==
    \A p, q \in Procs :
        (p # q /\ Done(p, "signIn") /\ Done(q, "signIn"))
            => procs[p].ret.id # procs[q].ret.id

----------------------------------------------------------------------------
(* C17 *)

\* C17 (as stated): in every reachable state every option of every stored
\* poll has a text that is not empty and is its own trimmed form, whatever
\* input createPoll accepted.  createPoll trims only in its guard and stores
\* the option as passed: " Pizza " is accepted and stored with its blanks.
C17_StoredTextsTrimmed ==
    \A i \in 1..Len(polls) : \A k \in 1..Len(polls[i].options) :
        /\ polls[i].options[k].text # <<>>
        /\ Trim(polls[i].options[k].text) = polls[i].options[k].text

----------------------------------------------------------------------------
(* C18 *)

\* id and text of each option, in order
OptionNames(poll) ==
    [k \in 1..Len(poll.options) |-> <<poll.options[k].id, poll.options[k].text>>]

\* C18: in every reachable state every poll of the stored collection has at
\* least two options, and in every step of castVote and createPoll (and of
\* every other call) each stored poll keeps the number, the order, the ids
\* and the texts of its options.
C18_OptionsFixed ==
    /\ [](\A i \in 1..Len(polls) : Len(polls[i].options) >= 2)
    /\ [][\A i \in 1..Len(polls) :
            /\ i <= Len(polls')
            /\ OptionNames(polls'[i]) = OptionNames(polls[i])]_vars

\* a poll made by createPoll has two options and a vote on one of them
C18_Witness ==
    /\ \E p \in Procs : Done(p, "createPoll")
    /\ \E p \in Procs, i \in 1..Len(polls) :
          /\ Done(p, "castVote") /\ polls[i].id = procs[p].pollId
          /\ i > Len(initialPolls)
          /\ Len(polls[i].options) = 2 /\ Len(polls[i].votedBy) = 1

----------------------------------------------------------------------------
(* C19 *)

\* the votes option k of the poll at place i had when the poll was stored
VotesAtCreation(i, k) ==
    IF i <= Len(initialPolls) THEN initialPolls[i].options[k].votes ELSE 0

\* the castVote calls that returned a poll and named option k of the poll at
\* place i
VotesCast(i, k) ==
    {p \in Procs :
        /\ Done(p, "castVote")
        /\ FindIndex(polls, procs[p].pollId) = i
        /\ procs[p].optionId = polls[i].options[k].id}

\* C19: in every reachable state, however the castVote and createPoll calls
\* overlapped at their awaits, the stored collection holds the seeded polls
\* and one poll for each createPoll call that returned, every voter of a
\* castVote call that returned is in the votedBy of the poll the call named,
\* and every option's votes are its votes at creation plus one for each
\* castVote call that returned and named it; in particular so once all the
\* calls started together have returned.
C19_NoLostUpdate ==
    /\ Len(polls) = Len(initialPolls)
                      + Cardinality({p \in Procs : Done(p, "createPoll")})
    /\ \A p \in Procs : Done(p, "createPoll") =>
          \E i \in 1..Len(polls) :
              /\ polls[i].id = procs[p].ret.id
              /\ polls[i].question = procs[p].ret.question
              /\ OptionNames(polls[i]) = OptionNames(procs[p].ret)
    /\ \A p \in Procs : Done(p, "castVote") =>
          Includes(polls[FindIndex(polls, procs[p].pollId)].votedBy, procs[p].userId)
    /\ \A i \in 1..Len(polls) : \A k \in 1..Len(polls[i].options) :
          polls[i].options[k].votes
              = VotesAtCreation(i, k) + Cardinality(VotesCast(i, k))

\* two users' castVote calls on one poll were started together, both
\* returned after the same tick, and both votes are stored
C19_Witness ==
    /\ now = ClockStart + 1
    /\ \A p \in Procs : Done(p, "castVote")
    /\ \E i \in 1..Len(polls) : Len(polls[i].votedBy) >= 2

----------------------------------------------------------------------------
(* C20 *)

\* C20: from the two empty fields the form starts with, after any sequence
\* of addOption, removeOption and handleOptionChange the number of option
\* fields is between 2 and 10; addOption at 10 fields and removeOption at 2
\* fields leave the fields as they are, addOption below 10 adds one field and
\* removeOption above 2 removes one, and handleOptionChange on a field that
\* exists leaves the number of fields as it is.
C20_FieldCountInRange ==
    /\ [](Len(createPollForm.options) >= 2 /\ Len(createPollForm.options) <= 10)
    /\ [][LET n == Len(createPollForm.options)
              m == Len(createPollForm'.options)
          IN /\ AddOption =>
                  IF n = 10 THEN createPollForm' = createPollForm ELSE m = n + 1
             /\ \A index \in FieldIndexes : RemoveOption(index) =>
                  IF n = 2 THEN createPollForm' = createPollForm ELSE m = n - 1
             /\ \A index \in FieldIndexes, value \in FieldTexts :
                  HandleOptionChange(index, value) => m = n]_vars

\* the form holds ten fields, one of them filled in
C20_Witness ==
    /\ Len(createPollForm.options) = 10
    /\ \E i \in FieldIndexes : createPollForm.options[i] # <<>>

====
